---- MODULE Spec2Model ----
(***************************************************************************)
(* Model of the eBRT backend: the save-input / send-to-validator pipeline  *)
(* (field mapper, payload builder, request and response schemas, and the   *)
(* submission handler with its axios-retry policy).                        *)
(***************************************************************************)
EXTENDS Integers, Sequences, FiniteSets, TLC

(***************************************************************************)
(* JSON values.  Every value is a one-field record whose field name is its *)
(* JavaScript type, so values of different types are never equal.          *)
(***************************************************************************)
Null == [null |-> TRUE]
Num(n) == [num |-> n]
Str(s) == [str |-> s]
Bool(b) == [bool |-> b]
Arr(a) == [arr |-> a]
Obj(f) == [obj |-> f]
EmptyObj == Obj(<<>>)
\* `undefined`: the value of a property that is not there.
Absent == [absent |-> TRUE]

IsNull(v) == "null" \in DOMAIN v
IsNum(v) == "num" \in DOMAIN v
IsStr(v) == "str" \in DOMAIN v
IsBool(v) == "bool" \in DOMAIN v
IsArr(v) == "arr" \in DOMAIN v
IsObj(v) == "obj" \in DOMAIN v

Keys(o) == DOMAIN o.obj
Has(o, k) == k \in DOMAIN o.obj
Get(o, k) == o.obj[k]
Put(o, k, v) == Obj((k :> v) @@ o.obj)
Del(o, k) == Obj([x \in (DOMAIN o.obj) \ {k} |-> o.obj[x]])

\* JavaScript truthiness (`x ? a : b`, `x || y`, `!x`).
Truthy(v) ==
    IF IsNull(v) THEN FALSE
    ELSE IF IsNum(v) THEN v.num # 0
    ELSE IF IsStr(v) THEN v.str # ""
    ELSE IF IsBool(v) THEN v.bool
    ELSE TRUE

IsNumArr(v) == IsArr(v) /\ \A i \in 1..Len(v.arr) : IsNum(v.arr[i])

\* Number(x) for the values the rules engine reads; NaN is [nan |-> TRUE].
NaN == [nan |-> TRUE]
ToNumber(v) ==
    IF IsNum(v) THEN v
    ELSE IF IsNull(v) THEN Num(0)
    ELSE IF IsBool(v) THEN Num(IF v.bool THEN 1 ELSE 0)
    ELSE IF IsStr(v) /\ v.str = "" THEN Num(0)
    ELSE IF IsArr(v) /\ Len(v.arr) = 0 THEN Num(0)
    ELSE NaN

(***************************************************************************)
(* State.                                                                  *)
(***************************************************************************)
VARIABLES
    specFile,       \* the parsed JSON document at SPEC_PATH
    boot,           \* start-up position: "load", "maps", "up" or "crashed"
    SPEC,           \* the module-level SPEC object
    uiMap,          \* group -> list of <<uiKey, backendKey>>
    calculatedKeys, \* the set of calculated <<group, backendKey>>
    config,         \* process configuration read at start-up
    store,          \* the Simulation collection: id number -> document
    sub,            \* one send-to-validator invocation per slot
    wire,           \* every outbound validator request issued so far
    saveRes,        \* the last response of save-input
    calls,          \* the /api/transform requests handled so far
    processedRequests, \* the example validator's Map, in insertion order
    validations,    \* one /validate request of the example validator per slot
    page            \* the simulation-interface page running pollResults

specVars == <<specFile, boot, SPEC, uiMap, calculatedKeys>>
\* The example validator and the browser page: other processes, which no
\* handler of the backend reads or writes.
peerVars == <<processedRequests, validations, page>>
vars == <<specFile, boot, SPEC, uiMap, calculatedKeys, config, store, sub, wire, saveRes, calls,
          processedRequests, validations, page>>

(***************************************************************************)
(* The specification document (json/driveCycleOption.json).                *)
(***************************************************************************)
TemplateVehicleLength == 12
TemplateMaximumSoC == 90

driveCycleOption ==
    [ backend_payload_template |->
        Obj( "Driving_Cycle" :> Obj( "Cycle_Type" :> Num(1)
                                  @@ "ECO_Options" :> Num(0)
                                  @@ "ECO_Threshold" :> Null
                                  @@ "Time_s" :> Null
                                  @@ "Speed_mps" :> Null
                                  @@ "Altitude_m" :> Num(0)
                                  @@ "Total_Distance_km" :> Num(0) )
          @@ "Scenario_data" :> Obj( "VehicleLength" :> Num(TemplateVehicleLength)
                                  @@ "Return_Trip_Distance_km" :> Num(0)
                                  @@ "Number_of_Buses_in_Fleet" :> Num(0)
                                  @@ "Average_Velocity_of_Route_kph" :> Num(0) )
          @@ "Energy_Storage_data" :> Obj( "MaximumSoC_pct" :> Num(TemplateMaximumSoC)
                                        @@ "Initial_Battery_SoC_pct" :> Num(50) )
          @@ "Charger_data" :> Obj( "Depot_Charger_Flag" :> Bool(TRUE)
                                 @@ "Charger_Power_kW" :> Num(150)
                                 @@ "Charge_Time_h" :> Num(0) ) ),
      ui_schema |->
        ( "Driving_Cycle" :>
            << [key |-> "cycleType", backend_key |-> "Cycle_Type", type |-> "select", show_only |-> FALSE],
               [key |-> "altitude", backend_key |-> "Altitude_m", type |-> "number", show_only |-> FALSE],
               [key |-> "totalDistance", backend_key |-> "Total_Distance_km", type |-> "calculated", show_only |-> FALSE],
               [key |-> "note", backend_key |-> "", type |-> "text", show_only |-> FALSE] >>
       @@ "Charger_data" :>
            << [key |-> "depotCharger", backend_key |-> "Depot_Charger_Flag", type |-> "checkbox", show_only |-> FALSE],
               [key |-> "chargerPower", backend_key |-> "Charger_Power_kW", type |-> "number", show_only |-> FALSE],
               [key |-> "chargeTime", backend_key |-> "Charge_Time_h", type |-> "number", show_only |-> TRUE] >>
       @@ "Energy_Storage_data" :>
            << [key |-> "maxSoc", backend_key |-> "MaximumSoC_pct", type |-> "number", show_only |-> FALSE] >> ) ]

\* Keys of the model's universe that end with "_Flag".
FlagKeys == {"Depot_Charger_Flag"}
endsWithFlag(k) == k \in FlagKeys

(***************************************************************************)
(* loadSpec (lines 460-493): the parsed document is returned unless its    *)
(* backend_payload_template is falsy or not of type 'object'.              *)
(***************************************************************************)
MsgMissingTemplate == "is missing required 'backend_payload_template' field"
MsgInvalidTemplate == "has invalid 'backend_payload_template' - must be an object"

\* typeof v === 'object' holds of objects, arrays and null.
TypeofObject(v) == IsObj(v) \/ IsArr(v) \/ IsNull(v)

loadSpec(file) ==
    IF \/ file.backend_payload_template = Absent
       \/ ~Truthy(file.backend_payload_template)
    THEN [ok |-> FALSE, message |-> MsgMissingTemplate]
    ELSE IF ~TypeofObject(file.backend_payload_template)
    THEN [ok |-> FALSE, message |-> MsgInvalidTemplate]
    ELSE [ok |-> TRUE, spec |-> file]

\* An object together with the place it lives at: writes through a reference
\* reach every reference to the same place.
Ref(place, v) == [at |-> place, val |-> v]
TemplatePlace == "SPEC.backend_payload_template"

\* Variant: the template object itself is handed back.
deepClone_SameObject(obj) == obj

\* Line 496: JSON.parse(JSON.stringify(obj)) is a new object of equal content.
deepClone(obj) == Ref("clone", obj.val)

\* The template as the writes made through reference r with result v leave it.
Written(r, v) == IF r.at = TemplatePlace THEN v ELSE SPEC.backend_payload_template

(***************************************************************************)
(* buildFieldMaps: uiMap[group] is the list of <<uiKey, backendKey>> in    *)
(* insertion order; calculatedKeys holds <<group, backendKey>>.            *)
(***************************************************************************)
RECURSIVE UpsertPair(_, _, _)
UpsertPair(pairs, k, v) ==
    IF pairs = <<>> THEN << <<k, v>> >>
    ELSE IF Head(pairs)[1] = k THEN << <<k, v>> >> \o Tail(pairs)
    ELSE <<Head(pairs)>> \o UpsertPair(Tail(pairs), k, v)

RECURSIVE GroupUiMap(_)
GroupUiMap(fields) ==
    IF fields = <<>> THEN <<>>
    ELSE LET f == fields[Len(fields)]
             rest == GroupUiMap(SubSeq(fields, 1, Len(fields) - 1))
         IN  IF f.backend_key = "" THEN rest
             ELSE UpsertPair(rest, f.key, f.backend_key)

buildFieldMaps(spec) ==
    LET ui == IF spec.ui_schema = Absent THEN <<>> ELSE spec.ui_schema
    IN  [ uiMap |-> [g \in DOMAIN ui |-> GroupUiMap(ui[g])],
          calculatedKeys |->
            UNION { { <<g, ui[g][i].backend_key>> :
                        i \in { j \in 1..Len(ui[g]) :
                                  /\ ui[g][j].backend_key # ""
                                  /\ \/ ui[g][j].type = "calculated"
                                     \/ ui[g][j].show_only } } :
                    g \in DOMAIN ui } ]

(***************************************************************************)
(* mapInputToBackend: copy every caller key through, then apply the        *)
(* UI -> backend renames of the group in insertion order.                  *)
(***************************************************************************)
RECURSIVE ApplyRenames(_, _, _)
ApplyRenames(pairs, groupVal, acc) ==
    IF pairs = <<>> THEN acc
    ELSE LET uiKey == Head(pairs)[1]
             backendKey == Head(pairs)[2]
         IN  ApplyRenames(Tail(pairs), groupVal,
                          IF Has(groupVal, uiKey)
                          THEN Put(acc, backendKey, Get(groupVal, uiKey))
                          ELSE acc)

\* Variant: the groups are copied through and no rename is applied.
mapInputToBackend_CopyOnly(inputData) ==
    IF ~IsObj(inputData) THEN EmptyObj
    ELSE Obj([g \in {h \in Keys(inputData) : IsObj(Get(inputData, h))} |->
                Get(inputData, g)])

\* Lines 534-554.  Line 538 skips an entry that is null or a primitive; an
\* array entry (typeof 'object') is not among the inputs modelled.
mapInputToBackend(inputData) ==
    IF ~IsObj(inputData) THEN EmptyObj
    ELSE Obj([g \in {h \in Keys(inputData) : IsObj(Get(inputData, h))} |->
                ApplyRenames(IF g \in DOMAIN uiMap THEN uiMap[g] ELSE <<>>,
                             Get(inputData, g), Get(inputData, g))])

(***************************************************************************)
(* buildBackendPayload: template defaults merged with the mapped input,    *)
(* then the rules engine.  The result is [ok |-> TRUE, payload |-> p] or   *)
(* [ok |-> FALSE, status |-> 400, message |-> m] for a thrown error; its   *)
(* `template` field is SPEC.backend_payload_template as the call leaves it.*)
(***************************************************************************)
StandardCycles == {1, 2, 3, 4, 5}
CityCycle == 0
CustomCycle == 6
EcoThresholdOption == 2

MsgBothArrays == "Time_s and Speed_mps must both be arrays for Custom cycle"
MsgSameLength == "Time_s and Speed_mps arrays must have the same length"
MsgEcoRequired == "ECO_Threshold is required when ECO_Options = ECO_Threshold"

\* `a ?? b` with a possibly absent key.
Nullish(o, k) == ~Has(o, k) \/ IsNull(Get(o, k))
Coalesce(o, k, dflt) == IF Nullish(o, k) THEN dflt ELSE Get(o, k)

\* Lines 564-584: the base merge of one template group.
MergeGroup(group, keys, src) ==
    Obj([k \in Keys(keys) |->
           IF <<group, k>> \in calculatedKeys THEN Get(keys, k)
           ELSE IF endsWithFlag(k) /\ Has(src, k)
                THEN Num(IF Truthy(Get(src, k)) THEN 1 ELSE 0)
           ELSE IF Has(src, k) THEN Get(src, k)
           ELSE Get(keys, k)])

BaseMerge(tpl, mapped) ==
    Obj([g \in Keys(tpl) |->
           MergeGroup(g, Get(tpl, g), IF Has(mapped, g) THEN Get(mapped, g) ELSE EmptyObj)])

\* Variant: a Standard cycle keeps the merged Altitude_m.
CycleBranch_StandardKeepsAltitude(dc, cycleType) ==
    LET std == IF cycleType \in {Num(c) : c \in StandardCycles}
               THEN Put(Put(dc, "Time_s", Null), "Speed_mps", Null)
               ELSE dc
    IN  IF cycleType = Num(CityCycle) THEN Del(std, "Altitude_m") ELSE std

\* Variant: a City cycle sends Altitude_m as null.
CycleBranch_CityNullAltitude(dc, cycleType) ==
    LET std == IF cycleType \in {Num(c) : c \in StandardCycles}
               THEN Put(Put(Put(dc, "Time_s", Null), "Speed_mps", Null), "Altitude_m", Num(0))
               ELSE dc
    IN  IF cycleType = Num(CityCycle) THEN Put(std, "Altitude_m", Null) ELSE std

\* Lines 595-608: Standard and City branches on Driving_Cycle.
CycleBranch(dc, cycleType) ==
    LET std == IF cycleType \in {Num(c) : c \in StandardCycles}
               THEN Put(Put(Put(dc, "Time_s", Null), "Speed_mps", Null), "Altitude_m", Num(0))
               ELSE dc
    IN  IF cycleType = Num(CityCycle) THEN Del(std, "Altitude_m") ELSE std

\* Variant: the lengths of the two arrays are not compared.
CustomError_LengthsUnchecked(dc, mdc) ==
    LET t == Coalesce(mdc, "Time_s", Get(dc, "Time_s"))
        s == Coalesce(mdc, "Speed_mps", Get(dc, "Speed_mps"))
    IN  IF IsArr(t) # IsArr(s) THEN MsgBothArrays ELSE ""

\* Lines 610-632: the Custom branch; "" when no error is thrown.
CustomError(dc, mdc) ==
    LET t == Coalesce(mdc, "Time_s", Get(dc, "Time_s"))
        s == Coalesce(mdc, "Speed_mps", Get(dc, "Speed_mps"))
    IN  IF IsArr(t) # IsArr(s) THEN MsgBothArrays
        ELSE IF IsArr(t) /\ IsArr(s) /\ Len(t.arr) # Len(s.arr) THEN MsgSameLength
        ELSE ""

\* Variant: a scalar Altitude_m is widened to a one-element array.
CustomAltitude_ScalarToArray(dc, mdc) ==
    IF \/ Nullish(mdc, "Altitude_m")
       \/ (IsArr(Get(mdc, "Altitude_m")) /\ Len(Get(mdc, "Altitude_m").arr) = 0)
    THEN Put(dc, "Altitude_m", Num(0))
    ELSE IF IsArr(Get(mdc, "Altitude_m")) THEN Put(dc, "Altitude_m", Get(mdc, "Altitude_m"))
    ELSE Put(dc, "Altitude_m", Arr(<<Get(mdc, "Altitude_m")>>))

CustomAltitude(dc, mdc) ==
    IF \/ Nullish(mdc, "Altitude_m")
       \/ (IsArr(Get(mdc, "Altitude_m")) /\ Len(Get(mdc, "Altitude_m").arr) = 0)
    THEN Put(dc, "Altitude_m", Num(0))
    ELSE Put(dc, "Altitude_m", Get(mdc, "Altitude_m"))

\* Variant: Scenario_data is rebuilt from the last-resort defaults alone.
ScenarioStep_DefaultsOnly(p, isStandard) ==
    IF ~isStandard THEN Del(p, "Scenario_data")
    ELSE Put(p, "Scenario_data",
             Obj( "VehicleLength" :>
                      Get(Get(SPEC.backend_payload_template, "Scenario_data"), "VehicleLength")
               @@ "Return_Trip_Distance_km" :> Num(0)
               @@ "Number_of_Buses_in_Fleet" :> Num(0)
               @@ "Average_Velocity_of_Route_kph" :> Num(0) ))

\* Lines 634-646: Scenario_data is kept (rebuilt) only for Standard cycles.
ScenarioStep(p, isStandard) ==
    IF ~isStandard THEN Del(p, "Scenario_data")
    ELSE LET sd == IF Has(p, "Scenario_data") /\ Truthy(Get(p, "Scenario_data"))
                   THEN Get(p, "Scenario_data") ELSE EmptyObj
         IN  Put(p, "Scenario_data",
                 Obj( "VehicleLength" :>
                          Coalesce(sd, "VehicleLength",
                                   Get(Get(SPEC.backend_payload_template, "Scenario_data"), "VehicleLength"))
                   @@ "Return_Trip_Distance_km" :> Coalesce(sd, "Return_Trip_Distance_km", Num(0))
                   @@ "Number_of_Buses_in_Fleet" :> Coalesce(sd, "Number_of_Buses_in_Fleet", Num(0))
                   @@ "Average_Velocity_of_Route_kph" :> Coalesce(sd, "Average_Velocity_of_Route_kph", Num(0)) ))

\* Lines 665-672: every *_Flag of Charger_data becomes 1/0.
ChargerStep(p) ==
    IF ~Has(p, "Charger_data") THEN p
    ELSE LET cd == Get(p, "Charger_data")
         IN  Put(p, "Charger_data",
                 Obj([k \in Keys(cd) |->
                        IF endsWithFlag(k)
                        THEN Num(IF Truthy(Get(cd, k)) THEN 1 ELSE 0)
                        ELSE Get(cd, k)]))

\* Lines 674-683: Initial_Battery_SoC_pct defaults from MaximumSoC_pct.
SocStep(p, mapped) ==
    IF ~Has(p, "Energy_Storage_data") THEN p
    ELSE LET es == Get(p, "Energy_Storage_data")
             mes == IF Has(mapped, "Energy_Storage_data")
                    THEN Get(mapped, "Energy_Storage_data") ELSE EmptyObj
         IN  IF ~Has(mes, "Initial_Battery_SoC_pct")
                /\ Has(es, "MaximumSoC_pct") /\ IsNum(Get(es, "MaximumSoC_pct"))
             THEN Put(p, "Energy_Storage_data",
                      Put(es, "Initial_Battery_SoC_pct", Get(es, "MaximumSoC_pct")))
             ELSE p

\* Variant: no final scrub.
ScrubStep_Skipped(p) == p

\* Lines 685-691: the final scrub of calculated keys.
ScrubStep(p) ==
    Obj([g \in Keys(p) |->
           LET grp == Get(p, g)
           IN  IF ~IsObj(grp) THEN grp
               ELSE Obj([k \in {x \in Keys(grp) : <<g, x>> \notin calculatedKeys} |->
                           Get(grp, k)])])

\* Lines 648-663: ECO_Threshold is required for the threshold option and
\* cleared for every other option.
EcoOn(dc) == ToNumber(Get(dc, "ECO_Options")) = Num(EcoThresholdOption)
EcoError(dc, mdc) == EcoOn(dc) /\ Nullish(mdc, "ECO_Threshold")

\* Variant: ECO_Threshold is removed instead of being set to null.
EcoStep_DeletesThreshold(dc) == IF EcoOn(dc) THEN dc ELSE Del(dc, "ECO_Threshold")

\* Variant: the merged threshold is sent whatever the option.
EcoStep_KeepsThreshold(dc) == dc

EcoStep(dc) == IF EcoOn(dc) THEN dc ELSE Put(dc, "ECO_Threshold", Null)

buildBackendPayload(inputData) ==
    LET tpl == deepClone(Ref(TemplatePlace, SPEC.backend_payload_template))
        mapped == mapInputToBackend(inputData)
        merged == BaseMerge(tpl.val, mapped)
        DC == Get(merged, "Driving_Cycle")
        mdc == IF Has(mapped, "Driving_Cycle") THEN Get(mapped, "Driving_Cycle") ELSE EmptyObj
        cycleType == ToNumber(Get(DC, "Cycle_Type"))
        isStandard == cycleType \in {Num(c) : c \in StandardCycles}
        isCustom == cycleType = Num(CustomCycle)
        dc1 == CycleBranch(DC, cycleType)
        customErr == IF isCustom THEN CustomError(dc1, mdc) ELSE ""
        dc2 == IF isCustom THEN CustomAltitude(dc1, mdc) ELSE dc1
        p1 == Put(merged, "Driving_Cycle", dc1)
        p2 == ScenarioStep(Put(merged, "Driving_Cycle", dc2), isStandard)
        p3 == Put(p2, "Driving_Cycle", EcoStep(dc2))
        p4 == ScrubStep(SocStep(ChargerStep(p3), mapped))
    IN  IF customErr # ""
        THEN [ok |-> FALSE, status |-> 400, message |-> customErr,
              template |-> Written(tpl, p1)]
        ELSE IF EcoError(dc2, mdc)
        THEN [ok |-> FALSE, status |-> 400, message |-> MsgEcoRequired,
              template |-> Written(tpl, p2)]
        ELSE [ok |-> TRUE, payload |-> p4, template |-> Written(tpl, p4)]

(***************************************************************************)
(* zod schemas of validation.js.  A parse yields [success, data]; plain    *)
(* z.object() strips keys it does not declare, .passthrough() keeps them.  *)
(***************************************************************************)
Restrict(o, ks) == Obj([k \in Keys(o) \cap ks |-> Get(o, k)])

OptNum(o, k) == ~Has(o, k) \/ IsNum(Get(o, k))
OptNullableNum(o, k) == ~Has(o, k) \/ IsNull(Get(o, k)) \/ IsNum(Get(o, k))
OptNullableNumArr(o, k) == ~Has(o, k) \/ IsNull(Get(o, k)) \/ IsNumArr(Get(o, k))
OptNumArr(o, k) == ~Has(o, k) \/ IsNumArr(Get(o, k))

DrivingCycleKeys ==
    {"Cycle_Type", "ECO_Options", "ECO_Threshold", "Time_s", "Speed_mps", "Altitude_m"}
DrivingCycleOk(v) ==
    /\ IsObj(v)
    /\ Has(v, "Cycle_Type") /\ IsNum(Get(v, "Cycle_Type"))
    /\ Get(v, "Cycle_Type").num >= 0 /\ Get(v, "Cycle_Type").num <= 6
    /\ OptNum(v, "ECO_Options")
    /\ OptNullableNum(v, "ECO_Threshold")
    /\ OptNullableNumArr(v, "Time_s")
    /\ OptNullableNumArr(v, "Speed_mps")
    /\ \/ OptNullableNum(v, "Altitude_m")
       \/ IsNumArr(Get(v, "Altitude_m"))

ScenarioDataKeys ==
    {"VehicleLength", "Return_Trip_Distance_km", "Number_of_Buses_in_Fleet",
     "Average_Velocity_of_Route_kph"}
ScenarioDataOk(v) == IsObj(v) /\ \A k \in ScenarioDataKeys : OptNum(v, k)

EnergyStorageKeys == {"MaximumSoC_pct", "Initial_Battery_SoC_pct"}
EnergyStorageOk(v) == IsObj(v) /\ \A k \in EnergyStorageKeys : OptNum(v, k)

PassthroughGroups == {"Charger_data", "Motor_data", "Battery_data"}

InputDataOk(v) ==
    /\ IsObj(v)
    /\ Has(v, "Driving_Cycle") /\ DrivingCycleOk(Get(v, "Driving_Cycle"))
    /\ Has(v, "Scenario_data") => ScenarioDataOk(Get(v, "Scenario_data"))
    /\ Has(v, "Energy_Storage_data") => EnergyStorageOk(Get(v, "Energy_Storage_data"))
    /\ \A g \in PassthroughGroups : Has(v, g) => IsObj(Get(v, g))

InputDataParsed(v) ==
    Obj([g \in Keys(v) |->
           IF g = "Driving_Cycle" THEN Restrict(Get(v, g), DrivingCycleKeys)
           ELSE IF g = "Scenario_data" THEN Restrict(Get(v, g), ScenarioDataKeys)
           ELSE IF g = "Energy_Storage_data" THEN Restrict(Get(v, g), EnergyStorageKeys)
           ELSE Get(v, g)])

RequestSchema(body) ==
    IF /\ IsObj(body)
       /\ Has(body, "userId") => (IsStr(Get(body, "userId")) \/ IsNull(Get(body, "userId")))
       /\ Has(body, "inputData") /\ InputDataOk(Get(body, "inputData"))
    THEN [success |-> TRUE,
          data |-> Put(Restrict(body, {"userId"}), "inputData",
                       InputDataParsed(Get(body, "inputData")))]
    ELSE [success |-> FALSE]

TimeseriesOptional == {"speed_ms", "rpm", "fuel_lph", "load_pct", "torque_pct"}
MetricsKeys ==
    {"fuel_rate_lph", "fuel_pct", "load_pct", "torque_pct", "dtc_count", "coolant_c",
     "intake_c", "ambient_c", "distance_km", "speed_now", "rpm_now"}

ValidatorResponseSchema(body) ==
    IF /\ IsObj(body)
       /\ Has(body, "version") /\ IsStr(Get(body, "version"))
       /\ Has(body, "computed_at") /\ IsStr(Get(body, "computed_at"))
       /\ Has(body, "timeseries") /\ IsObj(Get(body, "timeseries"))
       /\ Has(Get(body, "timeseries"), "time_s")
       /\ IsNumArr(Get(Get(body, "timeseries"), "time_s"))
       /\ \A k \in TimeseriesOptional : OptNumArr(Get(body, "timeseries"), k)
       /\ Has(body, "metrics") /\ IsObj(Get(body, "metrics"))
       /\ \A k \in MetricsKeys : OptNum(Get(body, "metrics"), k)
    THEN [success |-> TRUE,
          data |-> Obj( "version" :> Get(body, "version")
                     @@ "computed_at" :> Get(body, "computed_at")
                     @@ "timeseries" :> Restrict(Get(body, "timeseries"),
                                                 {"time_s"} \cup TimeseriesOptional)
                     @@ "metrics" :> Restrict(Get(body, "metrics"), MetricsKeys) )]
    ELSE [success |-> FALSE]

(***************************************************************************)
(* Bounds of the model and the process configuration.                      *)
(***************************************************************************)
MaxRecords == 2
MaxSubmits == 2

MAX_RETRIES == 3
SHARED_SECRETS == {"", "s3cret"}

RecIds == 1..MaxRecords
Subs == 1..MaxSubmits

\* ObjectId.toString(): the 24-digit hexadecimal form of the n-th id.
ObjectIdHex ==
    << "65a000000000000000000001", "65a000000000000000000002",
       "65a000000000000000000003", "65a000000000000000000004",
       "65a000000000000000000005", "65a000000000000000000006" >>
ObjectId(n) == [oid |-> n]
toString(id) == Str(ObjectIdHex[id.oid])

(***************************************************************************)
(* Inputs of the two handlers and outcomes of one outbound attempt.        *)
(***************************************************************************)
CityInput ==
    Obj( "Driving_Cycle" :> Obj( "Cycle_Type" :> Num(0) @@ "note" :> Str("x") ) )
CustomBadInput ==
    Obj( "Driving_Cycle" :> Obj( "Cycle_Type" :> Num(6)
                              @@ "Time_s" :> Arr(<<Num(0), Num(1)>>)
                              @@ "Speed_mps" :> Arr(<<Num(3)>>) ) )
NoCycleInput == Obj( "Driving_Cycle" :> Obj( "Cycle_Type" :> Str("city") ) )

SaveBodies ==
    { Obj( "userId" :> Str("u1") @@ "inputData" :> CityInput ),
      Obj( "inputData" :> CustomBadInput ),
      Obj( "inputData" :> NoCycleInput ) }

MalformedId == Str("not-an-object-id")
SubmitIds == {Null, MalformedId} \cup {toString(ObjectId(n)) : n \in RecIds}
isValidObjectId(v) == \E n \in 1..Len(ObjectIdHex) : v = toString(ObjectId(n))

GoodBody ==
    Obj( "version" :> Str("1.0")
      @@ "computed_at" :> Str("2024-01-01T00:00:00Z")
      @@ "timeseries" :> Obj( "time_s" :> Arr(<<Num(0), Num(1)>>) )
      @@ "metrics" :> Obj( "distance_km" :> Num(3) )
      @@ "extra" :> Str("x") )
BadBody ==
    Obj( "version" :> Str("1.0")
      @@ "computed_at" :> Str("2024-01-01T00:00:00Z")
      @@ "timeseries" :> Obj( "time_s" :> Str("0,1") )
      @@ "metrics" :> EmptyObj )
ErrorBody == Obj( "error" :> Str("upstream") )

\* One attempt ends without a response (transport error or timeout) or with
\* an HTTP response.
Outcomes ==
    { [response |-> FALSE, message |-> "timeout of 15000ms exceeded"],
      [response |-> TRUE, status |-> 200, data |-> GoodBody],
      [response |-> TRUE, status |-> 200, data |-> BadBody],
      [response |-> TRUE, status |-> 400, data |-> ErrorBody],
      [response |-> TRUE, status |-> 500, data |-> ErrorBody] }

\* axios validateStatus default, and the message of the error it rejects with.
validateStatus(status) == status >= 200 /\ status < 300
StatusMessage ==
    ( 400 :> "Request failed with status code 400"
   @@ 500 :> "Request failed with status code 500" )
ErrMessage(o) == IF o.response THEN StatusMessage[o.status] ELSE o.message
IsError(o) == ~o.response \/ ~validateStatus(o.status)

\* Variant: every error response is retried.
retryCondition_AnyError(error) == ~error.response \/ error.status >= 400

\* Lines 453-456: retry on network errors or 5xx responses.
retryCondition(error) ==
    ~error.response \/ (error.status >= 500 /\ error.status < 600)

(***************************************************************************)
(* State of the request handlers.                                          *)
(***************************************************************************)
IdleSub ==
    [pc |-> "idle", id |-> Null, found |-> "", doc |-> Null, modified |-> {}, attempts |-> 0,
     request |-> Null, last |-> Null, res |-> Null]

NoRes == [status |-> 0]

NotLoaded == [unset |-> TRUE]

\* Lines 494 and 528 have run on json/driveCycleOption.json.
SpecLoaded ==
    /\ specFile = driveCycleOption
    /\ boot = "up"
    /\ SPEC = loadSpec(driveCycleOption).spec
    /\ uiMap = buildFieldMaps(driveCycleOption).uiMap
    /\ calculatedKeys = buildFieldMaps(driveCycleOption).calculatedKeys

\* The example validator (README.md) and the simulation-interface page
\* (app/js/simulationInterface.js) before any request.
MaxValidations == 3
MaxOutstanding == 2
MaxTicks == 62
maxAttempts == 60
CacheLimit == 1000

Validations == 1..MaxValidations
IdleValidation == [pc |-> "idle", key |-> Absent, computed |-> FALSE, res |-> Null]
\* DOMContentLoaded has run: the POST to /api/send-to-validator is outstanding.
PageLoaded == [pc |-> "trigger", timer |-> FALSE, attempts |-> 0, outstanding |-> 0,
               navigations |-> 0]
\* No record, no request in progress.
ServerIdle ==
    /\ store = <<>>
    /\ sub = [i \in Subs |-> IdleSub]
    /\ wire = {}
    /\ saveRes = NoRes
    /\ calls = <<>>
    /\ processedRequests = <<>>
    /\ validations = [i \in Validations |-> IdleValidation]
    /\ page = PageLoaded

Init ==
    /\ SpecLoaded
    /\ config \in [SHARED_SECRET : SHARED_SECRETS]
    /\ ServerIdle

(***************************************************************************)
(* POST /api/save-input (lines 786-805 and 821-868).                       *)
(***************************************************************************)
SpecVersion == "1.0.0"
Timestamp == Str("now")

NewRequestJSON(userId, inputData, prepared) ==
    Obj( "userId" :> userId
      @@ "inputData" :> inputData
      @@ "payload" :> prepared
      @@ "timestamp" :> Timestamp
      @@ "version" :> Str(SpecVersion) )

\* Simulation.create with the schema defaults of lines 744-753.
NewDocument(n, userId, inputData, requestJSON, prepared) ==
    [ _id |-> ObjectId(n),
      userId |-> userId,
      inputData |-> inputData,
      requestJSON |-> requestJSON,
      preparedPayload |-> prepared,
      validatedResponse |-> Null,
      status |-> "pending",
      error |-> Null ]

UserIdOrNull(data) ==
    IF Has(data, "userId") /\ Truthy(Get(data, "userId")) THEN Get(data, "userId") ELSE Null

\* Variant: the record is created before the payload is built and is left
\* behind when the build throws.
SaveInput_RecordBeforeBuild(body) ==
    LET parsed == RequestSchema(body)
        inputData == Get(parsed.data, "inputData")
        built == buildBackendPayload(inputData)
        n == Len(store) + 1
        userId == UserIdOrNull(parsed.data)
    IN  /\ Len(store) < MaxRecords
        /\ UNCHANGED <<peerVars, specFile, boot, uiMap, calculatedKeys, calls, config, sub, wire>>
        /\ IF ~parsed.success
           THEN /\ saveRes' = [status |-> 422, error |-> "Validation failed"]
                /\ UNCHANGED <<store, SPEC>>
           ELSE /\ store' = Append(store,
                                   IF built.ok
                                   THEN NewDocument(n, userId, inputData,
                                            NewRequestJSON(userId, inputData, built.payload),
                                            built.payload)
                                   ELSE NewDocument(n, userId, inputData,
                                            NewRequestJSON(userId, inputData, Null), Null))
                /\ SPEC' = [SPEC EXCEPT !.backend_payload_template = built.template]
                /\ saveRes' = IF built.ok
                              THEN [status |-> 201, id |-> ObjectId(n), recStatus |-> "pending"]
                              ELSE [status |-> built.status, error |-> "Invalid input",
                                    message |-> built.message]

SaveInput(body) ==
    LET parsed == RequestSchema(body)
        inputData == Get(parsed.data, "inputData")
        built == buildBackendPayload(inputData)
        n == Len(store) + 1
        userId == UserIdOrNull(parsed.data)
    IN  /\ Len(store) < MaxRecords
        /\ UNCHANGED <<peerVars, specFile, boot, uiMap, calculatedKeys, calls, config, sub, wire>>
        /\ IF ~parsed.success
           THEN /\ saveRes' = [status |-> 422, error |-> "Validation failed"]
                /\ UNCHANGED <<store, SPEC>>
           ELSE IF ~built.ok
           THEN /\ saveRes' = [status |-> built.status, error |-> "Invalid input",
                               message |-> built.message]
                /\ SPEC' = [SPEC EXCEPT !.backend_payload_template = built.template]
                /\ UNCHANGED store
           ELSE /\ store' = Append(store,
                                   NewDocument(n, userId, inputData,
                                               NewRequestJSON(userId, inputData, built.payload),
                                               built.payload))
                /\ SPEC' = [SPEC EXCEPT !.backend_payload_template = built.template]
                /\ saveRes' = [status |-> 201, id |-> ObjectId(n), recStatus |-> "pending"]

(***************************************************************************)
(* POST /api/transform (lines 810-818): the request is validated and the   *)
(* payload built from it is returned; nothing is stored.                   *)
(***************************************************************************)
MaxCalls == 3
MaxLen == 5

Field(k, v) == IF v = Absent THEN <<>> ELSE (k :> v)

TimeSamples(n) == Arr([i \in 1..n |-> Num(i)])
SpeedSamples(n) == Arr([i \in 1..n |-> Num(10 + i)])

DrivingCycleOf(ct, t, s, alt, eco, thr) ==
    Obj( ("Cycle_Type" :> Num(ct)) @@ Field("Time_s", t) @@ Field("Speed_mps", s)
         @@ Field("Altitude_m", alt) @@ Field("ECO_Options", eco)
         @@ Field("ECO_Threshold", thr) )

\* Custom cycles over every pairing of absent, shorter and longer arrays;
\* City and Standard cycles with no arrays and with equal arrays.
ArrayInputs ==
    { DrivingCycleOf(CustomCycle, t, s, Absent, Absent, Absent) :
        t \in {Absent, TimeSamples(MaxLen)},
        s \in {Absent, SpeedSamples(MaxLen - 1), SpeedSamples(MaxLen)} }
    \cup
    { DrivingCycleOf(ct, a[1], a[2], Absent, Absent, Absent) :
        ct \in {CityCycle, 1},
        a \in { <<Absent, Absent>>, <<TimeSamples(MaxLen), SpeedSamples(MaxLen)>> } }

AltitudeInputs ==
    { DrivingCycleOf(ct, TimeSamples(MaxLen), SpeedSamples(MaxLen), alt, Absent, Absent) :
        ct \in {CityCycle, 1, CustomCycle},
        alt \in {Num(7), TimeSamples(MaxLen)} }
    \cup
    { DrivingCycleOf(CustomCycle, TimeSamples(MaxLen), SpeedSamples(MaxLen), alt, Absent, Absent) :
        alt \in {Null, Arr(<<>>)} }

EcoInputs ==
    { DrivingCycleOf(a[1], TimeSamples(MaxLen), a[2], Absent, Num(eco), thr) :
        a \in { <<1, SpeedSamples(MaxLen)>>, <<CustomCycle, SpeedSamples(MaxLen)>>,
                <<CustomCycle, SpeedSamples(MaxLen - 1)>> },
        eco \in {1, EcoThresholdOption},
        thr \in {Absent, Null, Num(5)} }

\* Inputs that use UI keys (alone and next to their backend key), undeclared
\* keys, the other groups, a group the template does not have and a
\* top-level entry that is not an object.
GroupInputs ==
    { Obj( "Driving_Cycle" :> Obj( "Cycle_Type" :> Num(CustomCycle)
                                @@ "Time_s" :> TimeSamples(MaxLen)
                                @@ "Speed_mps" :> SpeedSamples(MaxLen)
                                @@ "altitude" :> Num(9)
                                @@ "Total_Distance_km" :> Num(42) ) ),
      Obj( "Driving_Cycle" :> Obj( "Cycle_Type" :> Num(1) )
        @@ "Scenario_data" :> Obj( "VehicleLength" :> Num(18)
                                @@ "Return_Trip_Distance_km" :> Num(30) )
        @@ "Charger_data" :> Obj( "depotCharger" :> Bool(FALSE)
                               @@ "chargerPower" :> Num(50)
                               @@ "Charger_Power_kW" :> Num(75)
                               @@ "Charge_Time_h" :> Num(3) )
        @@ "Energy_Storage_data" :> Obj( "MaximumSoC_pct" :> Num(80) ) ),
      Obj( "Driving_Cycle" :> Obj( "Cycle_Type" :> Num(CityCycle) )
        @@ "Scenario_data" :> Obj( "Number_of_Buses_in_Fleet" :> Num(6) )
        @@ "Charger_data" :> Obj( "chargeTime" :> Num(4) )
        @@ "Energy_Storage_data" :> Obj( "Initial_Battery_SoC_pct" :> Num(40) )
        @@ "Fleet_data" :> Obj( "size" :> Num(3) )
        @@ "notes" :> Str("night run") ) }

TransformBodies ==
    { Obj( "inputData" :> Obj( "Driving_Cycle" :> dc ) ) :
        dc \in ArrayInputs \cup AltitudeInputs \cup EcoInputs }
    \cup { Obj( "inputData" :> d ) : d \in GroupInputs }
    \cup { Obj( "inputData" :> NoCycleInput ) }

Transform(body) ==
    LET parsed == RequestSchema(body)
        inputData == Get(parsed.data, "inputData")
        prepared == buildBackendPayload(inputData)
    IN  /\ Len(calls) < MaxCalls
        /\ UNCHANGED <<peerVars, specFile, boot, uiMap, calculatedKeys, config, store, sub, wire, saveRes>>
        /\ IF ~parsed.success
           THEN /\ calls' = Append(calls, [body |-> body, input |-> Absent,
                                           res |-> [status |-> 422, error |-> "Validation failed"]])
                /\ UNCHANGED SPEC
           ELSE /\ calls' = Append(calls,
                      [body |-> body, input |-> inputData,
                       res |-> IF prepared.ok
                               THEN [status |-> 200, payload |-> prepared.payload]
                               ELSE [status |-> prepared.status, error |-> "Transform error",
                                     message |-> prepared.message]])
                /\ SPEC' = [SPEC EXCEPT !.backend_payload_template = prepared.template]

BuildInit ==
    /\ SpecLoaded
    /\ config = [SHARED_SECRET |-> ""]
    /\ ServerIdle

BuildNext == \E body \in TransformBodies : Transform(body)

BuildSpec == BuildInit /\ [][BuildNext]_vars

(***************************************************************************)
(* The response schema applied to validator bodies (lines 932-934):        *)
(* ValidatorResponseSchema.safeParse(body), one parse per log entry.       *)
(***************************************************************************)
MaxResponses == 1

IsoTimestamp == "2024-01-01T00:00:00Z"
Versions == {Absent, Str("1.0"), Num(1)}
ComputedAts == {Absent, Str(IsoTimestamp), Str("yesterday"), Str(""), Num(1704067200)}
TimeseriesInputs ==
    { Absent, Null, EmptyObj,
      Obj( "time_s" :> Arr(<<Num(0), Num(1)>>) ),
      Obj( "time_s" :> Arr(<<>>) ),
      Obj( "time_s" :> Str("0,1") ),
      Obj( "time_s" :> Arr(<<Num(0), Str("1")>>) ),
      Obj( "time_s" :> Arr(<<Num(0)>>) @@ "rpm" :> Arr(<<Num(900)>>) ),
      Obj( "time_s" :> Arr(<<Num(0)>>) @@ "rpm" :> Num(900) ),
      Obj( "time_s" :> Arr(<<Num(0)>>) @@ "gear" :> Str("D") ) }
MetricsInputs ==
    { Absent, Arr(<<>>), EmptyObj,
      Obj( "distance_km" :> Num(3) ),
      Obj( "distance_km" :> Str("3") ),
      Obj( "distance_km" :> Num(3) @@ "driver" :> Str("a") ) }

ResponseBodies ==
    { Obj( Field("version", v) @@ Field("computed_at", t)
           @@ Field("timeseries", ts) @@ Field("metrics", m) ) :
        v \in Versions, t \in ComputedAts, ts \in TimeseriesInputs, m \in MetricsInputs }
    \cup {Null, Str("ok"), GoodBody, BadBody, ErrorBody}

ParseResponse(body) ==
    /\ Len(calls) < MaxResponses
    /\ calls' = Append(calls, [body |-> body, res |-> ValidatorResponseSchema(body)])
    /\ UNCHANGED <<specVars, peerVars, config, store, sub, wire, saveRes>>

ResponseInit ==
    /\ SpecLoaded
    /\ config = [SHARED_SECRET |-> ""]
    /\ ServerIdle

ResponseNext == \E body \in ResponseBodies : ParseResponse(body)

ResponseSpec == ResponseInit /\ [][ResponseNext]_vars

(***************************************************************************)
(* Start-up (lines 494 and 528): SPEC = loadSpec(), then buildFieldMaps.   *)
(* An exception at module level ends the process.                          *)
(***************************************************************************)
MaxFields == 2

Descriptors ==
    { [key |-> "speed", backend_key |-> "Speed_kph", type |-> "number", show_only |-> FALSE],
      [key |-> "speed", backend_key |-> "Velocity_kph", type |-> "number", show_only |-> FALSE],
      [key |-> "range", backend_key |-> "Range_km", type |-> "calculated", show_only |-> FALSE],
      [key |-> "note", backend_key |-> "", type |-> "text", show_only |-> FALSE] }

FieldLists == UNION { [1..n -> Descriptors] : n \in 0..MaxFields }

Templates ==
    { Absent, Null, Num(0), Num(5), Str(""), Str("template"), Bool(TRUE), Arr(<<>>),
      Obj( "Route" :> Obj( "Speed_kph" :> Num(0) @@ "Range_km" :> Num(0) ) ) }

SpecFiles ==
    [ backend_payload_template : Templates,
      ui_schema : {Absent} \cup { "Route" :> fields : fields \in FieldLists } ]

StartInit ==
    /\ specFile \in SpecFiles
    /\ boot = "load"
    /\ SPEC = NotLoaded
    /\ uiMap = NotLoaded
    /\ calculatedKeys = NotLoaded
    /\ config = [SHARED_SECRET |-> ""]
    /\ ServerIdle

\* Line 494: const SPEC = loadSpec().
LoadSpec ==
    /\ boot = "load"
    /\ LET loaded == loadSpec(specFile)
       IN  IF loaded.ok
           THEN SPEC' = loaded.spec /\ boot' = "maps"
           ELSE boot' = "crashed" /\ UNCHANGED SPEC
    /\ UNCHANGED <<peerVars, specFile, uiMap, calculatedKeys, config, store, sub, wire, saveRes, calls>>

\* Line 528: the field maps are built once from SPEC.
BuildFieldMaps ==
    /\ boot = "maps"
    /\ uiMap' = buildFieldMaps(SPEC).uiMap
    /\ calculatedKeys' = buildFieldMaps(SPEC).calculatedKeys
    /\ boot' = "up"
    /\ UNCHANGED <<peerVars, specFile, SPEC, config, store, sub, wire, saveRes, calls>>

StartNext == LoadSpec \/ BuildFieldMaps

StartSpec == StartInit /\ [][StartNext]_vars

(***************************************************************************)
(* Mongoose documents: assigning a path marks it modified only when the    *)
(* value changes, and save() writes the modified paths.                    *)
(***************************************************************************)
findById(id) ==
    IF \E n \in 1..Len(store) : toString(store[n]._id) = id
    THEN store[CHOOSE n \in 1..Len(store) : toString(store[n]._id) = id]
    ELSE Null

SetPath(s, path, val) ==
    IF s.doc[path] = val THEN s
    ELSE [s EXCEPT !.doc = [@ EXCEPT ![path] = val], !.modified = @ \cup {path}]

\* doc.save(): the update that reaches the collection.
Saved(s) ==
    [store EXCEPT ![s.doc._id.oid] =
        [f \in DOMAIN @ |-> IF f \in s.modified THEN s.doc[f] ELSE @[f]]]

(***************************************************************************)
(* POST /api/send-to-validator (lines 871-983).                            *)
(***************************************************************************)
ErrFormat == "Invalid validator response format"
ErrValidation == "Validator response validation error"

\* Line 930 declares `const validated`; line 951 assigns to it inside the
\* validation try block, which throws a TypeError caught at line 952.
ValidatedIsConst == TRUE
AssignValidatedThrows == ValidatedIsConst

\* Lines 873-881: the request arrives; a missing id is answered 400, an id
\* that is not an ObjectId makes findById reject (outer catch, 500).
Receive(i, id) ==
    /\ sub[i].pc = "idle"
    /\ UNCHANGED <<specVars, peerVars, calls, config, store, wire, saveRes>>
    /\ IF ~Truthy(id)
       THEN sub' = [sub EXCEPT ![i] = [IdleSub EXCEPT !.pc = "done", !.id = id,
                        !.res = [status |-> 400, error |-> "Missing required field"]]]
       ELSE IF ~isValidObjectId(id)
       THEN sub' = [sub EXCEPT ![i] = [IdleSub EXCEPT !.pc = "done", !.id = id,
                        !.res = [status |-> 500, error |-> "Internal Server Error"]]]
       ELSE sub' = [sub EXCEPT ![i] = [IdleSub EXCEPT !.pc = "findById", !.id = id]]

\* Lines 878-885: the lookup resolves; status is set and save() is called.
Find(i) ==
    /\ sub[i].pc = "findById"
    /\ UNCHANGED <<specVars, peerVars, calls, config, store, wire, saveRes>>
    /\ LET doc == findById(sub[i].id)
       IN  IF doc = Null
           THEN sub' = [sub EXCEPT ![i].pc = "done",
                                   ![i].res = [status |-> 404, error |-> "Record not found"]]
           ELSE sub' = [sub EXCEPT ![i] =
                           [SetPath([@ EXCEPT !.doc = doc, !.found = doc.status],
                                    "status", "processing")
                               EXCEPT !.pc = "save_processing"]]

\* Variant: the call is issued without waiting for the status to be saved.
SaveProcessing_NotPersisted(i) ==
    /\ sub[i].pc = "save_processing"
    /\ sub' = [sub EXCEPT ![i].pc = "prepare"]
    /\ UNCHANGED <<specVars, peerVars, calls, config, store, wire, saveRes>>

\* Line 885: the write of save() reaches the collection.
SaveProcessing(i) ==
    /\ sub[i].pc = "save_processing"
    /\ store' = Saved(sub[i])
    /\ sub' = [sub EXCEPT ![i].modified = {}, ![i].pc = "prepare"]
    /\ UNCHANGED <<specVars, peerVars, calls, config, wire, saveRes>>

\* Variant: the whole request envelope is sent, as the handler did before
\* preparedPayload existed.
payloadToSend_Envelope(doc) == doc.requestJSON

\* Lines 887-891.
payloadToSend(doc) ==
    IF Truthy(doc.preparedPayload) THEN doc.preparedPayload
    ELSE IF Has(doc.requestJSON, "payload") /\ Truthy(Get(doc.requestJSON, "payload"))
         THEN Get(doc.requestJSON, "payload")
    ELSE doc.requestJSON

\* utils.js createHmacSignature: hex HMAC-SHA256 of the serialized payload.
createHmacSignature(payload, secret) ==
    IF secret = "" THEN Null ELSE [hmac |-> <<secret, payload>>]

\* Variant: the idempotency key is taken from the request's version stamp.
Headers_VersionKey(doc) ==
    ( "Content-Type" :> Str("application/json")
   @@ "User-Agent" :> Str("eBRT-Backend/1.0.0")
   @@ "Idempotency-Key" :> Get(doc.requestJSON, "version") )

\* Variant: the signature is computed over the stored request envelope.
Headers_SignsEnvelope(doc) ==
    LET base == ( "Content-Type" :> Str("application/json")
               @@ "User-Agent" :> Str("eBRT-Backend/1.0.0")
               @@ "Idempotency-Key" :> toString(doc._id) )
        signature == createHmacSignature(doc.requestJSON, config.SHARED_SECRET)
    IN  IF config.SHARED_SECRET # "" /\ signature # Null
        THEN ("X-Signature" :> signature) @@ base
        ELSE base

\* Lines 893-906.
Headers(doc) ==
    LET base == ( "Content-Type" :> Str("application/json")
               @@ "User-Agent" :> Str("eBRT-Backend/1.0.0")
               @@ "Idempotency-Key" :> toString(doc._id) )
        signature == createHmacSignature(payloadToSend(doc), config.SHARED_SECRET)
    IN  IF config.SHARED_SECRET # "" /\ signature # Null
        THEN ("X-Signature" :> signature) @@ base
        ELSE base

\* Lines 908-913: axios.post issues the first attempt.
Post(i) ==
    /\ sub[i].pc = "prepare"
    /\ LET req == [data |-> payloadToSend(sub[i].doc), headers |-> Headers(sub[i].doc)]
       IN  /\ sub' = [sub EXCEPT ![i].request = req, ![i].attempts = 1,
                                 ![i].pc = "in_flight"]
           /\ wire' = wire \cup {[doc |-> sub[i].doc._id, request |-> req]}
    /\ UNCHANGED <<specVars, peerVars, calls, config, store, saveRes>>

\* Variant: the retry budget counts attempts instead of retries.
ShouldRetry_CountsAttempts(s, o) ==
    IsError(o) /\ s.attempts < MAX_RETRIES /\ (~o.response \/ o.status >= 500)

\* axios-retry (lines 450-457): a failed attempt is retried while the retry
\* count is below `retries` and retryCondition holds.
ShouldRetry(s, o) == IsError(o) /\ s.attempts - 1 < MAX_RETRIES /\ retryCondition(o)

\* Variant: the catch block puts the record back to `pending`.
OnValidatorError_BackToPending(s, o) ==
    [SetPath(SetPath(s, "status", "pending"), "error", Str(ErrMessage(o)))
        EXCEPT !.pc = "save_final",
               !.res = [status |-> 502, error |-> "Validator error"]]

\* Variant: the catch block records the error but not the status.
OnValidatorError_StatusKept(s, o) ==
    [SetPath(s, "error", Str(ErrMessage(o)))
        EXCEPT !.pc = "save_final",
               !.res = [status |-> 502, error |-> "Validator error"]]

\* Variant: the catch block answers the caller without awaiting save().
OnValidatorError_ReplyFirst(s, o) ==
    [SetPath(SetPath(s, "status", "failed"), "error", Str(ErrMessage(o)))
        EXCEPT !.pc = "respond",
               !.res = [status |-> 502, error |-> "Validator error"]]

\* Lines 914-927: the catch block of the outbound call.
OnValidatorError(s, o) ==
    [SetPath(SetPath(s, "status", "failed"), "error", Str(ErrMessage(o)))
        EXCEPT !.pc = "save_final",
               !.res = [status |-> IF o.response /\ o.status # 0 THEN o.status ELSE 502,
                        error |-> "Validator error",
                        message |-> ErrMessage(o),
                        detail |-> IF o.response /\ Truthy(o.data) THEN o.data
                                   ELSE Obj("error" :> Str("Validator unreachable"))]]

\* Variant: any object body is accepted without the schema.
OnValidatorResponse_Unchecked(s, o) ==
    IF ~IsObj(o.data)
    THEN [SetPath(SetPath(s, "status", "failed"), "error", Str(ErrFormat))
             EXCEPT !.pc = "save_final",
                    !.res = [status |-> 422, error |-> "Invalid validator response"]]
    ELSE [SetPath(SetPath(SetPath(s, "validatedResponse", o.data),
                          "status", "completed"), "error", Null)
             EXCEPT !.pc = "save_final",
                    !.res = [status |-> 200, id |-> s.doc._id, recStatus |-> "completed"]]

\* Variant: the body is stored on the record before it is validated.
OnValidatorResponse_StoredFirst(s, o) ==
    LET kept == SetPath(s, "validatedResponse", o.data)
    IN  IF ~ValidatorResponseSchema(o.data).success
        THEN [SetPath(SetPath(kept, "status", "failed"), "error", Str(ErrFormat))
                 EXCEPT !.pc = "save_final",
                        !.res = [status |-> 422, error |-> "Invalid validator response",
                                 details |-> "flattened field errors"]]
        ELSE [SetPath(SetPath(kept, "status", "failed"), "error", Str(ErrValidation))
                 EXCEPT !.pc = "save_final",
                        !.res = [status |-> 422,
                                 error |-> "Validator response validation error"]]

\* Lines 930-978: the response body is validated and the record completed.
OnValidatorResponse(s, o) ==
    LET parsedResponse == ValidatorResponseSchema(o.data)
    IN  IF ~parsedResponse.success
        THEN [SetPath(SetPath(s, "status", "failed"), "error", Str(ErrFormat))
                 EXCEPT !.pc = "save_final",
                        !.res = [status |-> 422, error |-> "Invalid validator response",
                                 details |-> "flattened field errors"]]
        ELSE IF AssignValidatedThrows
        THEN [SetPath(SetPath(s, "status", "failed"), "error", Str(ErrValidation))
                 EXCEPT !.pc = "save_final",
                        !.res = [status |-> 422,
                                 error |-> "Validator response validation error"]]
        ELSE [SetPath(SetPath(SetPath(s, "validatedResponse", parsedResponse.data),
                              "status", "completed"), "error", Null)
                 EXCEPT !.pc = "save_final",
                        !.res = [status |-> 200, id |-> s.doc._id,
                                 recStatus |-> "completed"]]

\* The current attempt ends with outcome o.  When the call settles, the retry
\* state axios-retry kept on the request is gone with it.
Respond(i, o) ==
    /\ sub[i].pc = "in_flight"
    /\ LET s == [sub[i] EXCEPT !.last = o]
           settled == [s EXCEPT !.attempts = 0, !.request = Null]
       IN  sub' = [sub EXCEPT ![i] =
                      IF ShouldRetry(s, o) THEN [s EXCEPT !.pc = "backoff"]
                      ELSE IF IsError(o) THEN OnValidatorError(settled, o)
                      ELSE OnValidatorResponse(settled, o)]
    /\ UNCHANGED <<specVars, peerVars, calls, config, store, wire, saveRes>>

\* axios-retry re-issues the same request after the back-off delay.
Retry(i) ==
    /\ sub[i].pc = "backoff"
    /\ sub' = [sub EXCEPT ![i].attempts = @ + 1, ![i].pc = "in_flight"]
    /\ wire' = wire \cup {[doc |-> sub[i].doc._id, request |-> sub[i].request]}
    /\ UNCHANGED <<specVars, peerVars, calls, config, store, saveRes>>

\* Lines 919, 941, 957, 968: the write of the final save() reaches the collection.
SaveFinal(i) ==
    /\ sub[i].pc = "save_final"
    /\ store' = Saved(sub[i])
    /\ sub' = [sub EXCEPT ![i].modified = {}, ![i].pc = "respond"]
    /\ UNCHANGED <<specVars, peerVars, calls, config, wire, saveRes>>

\* Lines 923, 943, 959, 978: the response is sent to the caller.
Reply(i) ==
    /\ sub[i].pc = "respond"
    /\ sub' = [sub EXCEPT ![i].pc = "done"]
    /\ UNCHANGED <<specVars, peerVars, calls, config, store, wire, saveRes>>

\* GET /api/results/:id (lines 986-1009).
GetResults(n) ==
    [ id |-> store[n]._id,
      status |-> store[n].status,
      preparedPayload |-> IF Truthy(store[n].preparedPayload)
                          THEN store[n].preparedPayload ELSE Null,
      validatedResponse |-> IF Truthy(store[n].validatedResponse)
                            THEN store[n].validatedResponse ELSE Null,
      error |-> store[n].error ]

Next ==
    \/ \E body \in SaveBodies : SaveInput(body)
    \/ \E i \in Subs, id \in SubmitIds : Receive(i, id)
    \/ \E i \in Subs : Find(i)
    \/ \E i \in Subs : SaveProcessing(i)
    \/ \E i \in Subs : Post(i)
    \/ \E i \in Subs, o \in Outcomes : Respond(i, o)
    \/ \E i \in Subs : Retry(i)
    \/ \E i \in Subs : SaveFinal(i)
    \/ \E i \in Subs : Reply(i)

Spec == Init /\ [][Next]_vars

\* The outbound call and each save settle (a response or the request timeout
\* ends every attempt), so every started invocation keeps making progress.
Progress(i) ==
    \/ Find(i) \/ SaveProcessing(i) \/ Post(i) \/ Retry(i) \/ SaveFinal(i) \/ Reply(i)
    \/ \E o \in Outcomes : Respond(i, o)

FairSpec == Spec /\ \A i \in Subs : WF_vars(Progress(i))

(***************************************************************************)
(* The example validator of README.md (lines 185-345): POST /validate      *)
(* behind verifySignature, with the in-memory idempotency Map.             *)
(***************************************************************************)
IdempotencyKeys == {Absent, Str("key-1"), Str("key-2")}
\* Math.random() and new Date() make the body a function of the run.
RandomDraws == {0, 1}

MapHas(m, k) == \E n \in 1..Len(m) : m[n][1] = k
MapGet(m, k) == m[CHOOSE n \in 1..Len(m) : m[n][1] = k][2]
\* Map.set, then the clean-up of lines 316-319.
MapSet(m, k, v) ==
    LET set == UpsertPair(m, k, v)
    IN  IF Len(set) > CacheLimit THEN Tail(set) ELSE set

\* Lines 285-310: the response object built by one computation.
ResponseOf(draw) ==
    Obj( "version" :> Str("1.0.0")
      @@ "computed_at" :> Str(IsoTimestamp)
      @@ "timeseries" :> Obj( "time_s" :> Arr(<<Num(0), Num(1)>>) )
      @@ "metrics" :> Obj( "dtc_count" :> Num(0) @@ "coolant_c" :> Num(75 + draw) ) )

\* Lines 194-238: verifySignature on a missing, wrong or matching signature,
\* then the idempotency check; a miss starts the await of line 242.
Arrive(i, key, sig) ==
    /\ validations[i].pc = "idle"
    /\ validations' = [validations EXCEPT ![i] =
          IF sig = "none"
          THEN [@ EXCEPT !.pc = "done", !.key = key,
                         !.res = [status |-> 401, error |-> "Missing signature"]]
          ELSE IF sig = "bad"
          THEN [@ EXCEPT !.pc = "done", !.key = key,
                         !.res = [status |-> 401, error |-> "Invalid signature"]]
          ELSE IF key # Absent /\ MapHas(processedRequests, key)
          THEN [@ EXCEPT !.pc = "done", !.key = key,
                         !.res = [status |-> 200, body |-> MapGet(processedRequests, key)]]
          ELSE [@ EXCEPT !.pc = "processing", !.key = key]]
    /\ UNCHANGED <<specVars, config, store, sub, wire, saveRes, calls, processedRequests, page>>

\* Lines 242-322: the timer fires, the response is computed, cached and sent.
Compute(i, draw) ==
    /\ validations[i].pc = "processing"
    /\ LET key == validations[i].key
           response == ResponseOf(draw)
       IN  /\ processedRequests' =
                 IF key # Absent THEN MapSet(processedRequests, key, response)
                 ELSE processedRequests
           /\ validations' = [validations EXCEPT ![i] =
                 [@ EXCEPT !.pc = "done", !.computed = TRUE,
                           !.res = [status |-> 200, body |-> response]]]
    /\ UNCHANGED <<specVars, config, store, sub, wire, saveRes, calls, page>>

ValidatorInit ==
    /\ SpecLoaded
    /\ config = [SHARED_SECRET |-> "s3cret"]
    /\ ServerIdle

ValidatorNext ==
    \/ \E i \in Validations, key \in IdempotencyKeys, sig \in {"none", "bad", "good"} :
          Arrive(i, key, sig)
    \/ \E i \in Validations, draw \in RandomDraws : Compute(i, draw)

ValidatorSpec == ValidatorInit /\ [][ValidatorNext]_vars

(***************************************************************************)
(* The simulation-interface page (app/js/simulationInterface.js 25-63).    *)
(***************************************************************************)
\* Lines 26-38: the trigger settles either way and pollResults(id) starts
\* the interval timer (lines 41-43).
pollResults ==
    /\ page.pc = "trigger"
    /\ page' = [page EXCEPT !.pc = "polling", !.timer = TRUE, !.attempts = 0]
    /\ UNCHANGED <<specVars, config, store, sub, wire, saveRes, calls,
                   processedRequests, validations>>

\* Lines 43-45: the interval fires; attempts++ and one more fetch is issued.
Tick ==
    /\ page.pc # "unloaded" /\ page.timer
    /\ page.attempts < MaxTicks /\ page.outstanding < MaxOutstanding
    /\ page' = [page EXCEPT !.attempts = @ + 1, !.outstanding = @ + 1]
    /\ UNCHANGED <<specVars, config, store, sub, wire, saveRes, calls,
                   processedRequests, validations>>

\* Lines 46-61: one outstanding fetch settles and its callback runs on a
\* record with validatedResponse, a record without, or a rejection.
PollSettles(result) ==
    /\ page.pc # "unloaded" /\ page.outstanding > 0
    /\ LET navigate ==
              \/ result = "validated"
              \/ page.attempts >= maxAttempts
       IN  page' = IF navigate
                   THEN [page EXCEPT !.outstanding = @ - 1, !.timer = FALSE,
                                     !.navigations = @ + 1]
                   ELSE [page EXCEPT !.outstanding = @ - 1]
    /\ UNCHANGED <<specVars, config, store, sub, wire, saveRes, calls,
                   processedRequests, validations>>

\* A fetch that never settles: none of its callbacks ever runs.
PollHangs ==
    /\ page.pc # "unloaded" /\ page.outstanding > 0
    /\ page' = [page EXCEPT !.outstanding = @ - 1]
    /\ UNCHANGED <<specVars, config, store, sub, wire, saveRes, calls,
                   processedRequests, validations>>

\* The navigation started by `window.location.href = ...` commits: the
\* document, its timer and its pending callbacks are gone.
Unload ==
    /\ page.pc # "unloaded" /\ page.navigations > 0
    /\ page' = [page EXCEPT !.pc = "unloaded", !.timer = FALSE, !.outstanding = 0]
    /\ UNCHANGED <<specVars, config, store, sub, wire, saveRes, calls,
                   processedRequests, validations>>

PageInit ==
    /\ SpecLoaded
    /\ config = [SHARED_SECRET |-> ""]
    /\ ServerIdle

PageNext ==
    \/ pollResults
    \/ Tick
    \/ \E result \in {"validated", "pending", "rejected"} : PollSettles(result)
    \/ PollHangs
    \/ Unload

PageSpec == PageInit /\ [][PageNext]_vars

(***************************************************************************)
(* Properties of the submission handler.                                   *)
(***************************************************************************)
Started(i) == sub[i].doc # Null
RecOf(i) == sub[i].doc._id.oid
Calling(i) == sub[i].pc \in {"in_flight", "backoff"}
Settled(i) == sub[i].pc \in {"save_final", "respond", "done"}
\* i is the only invocation that names its record.
Alone(i) == \A j \in Subs \ {i} : sub[j].id # sub[i].id
Last2xx(i) == sub[i].last # Null /\ ~IsError(sub[i].last)
LastValid(i) == Last2xx(i) /\ ValidatorResponseSchema(sub[i].last.data).success

\* C1: a submit that finds the record already `processing` issues no outbound
\* call, and at most one submit per record is issuing outbound calls.
C1_SingleFlight ==
    /\ \A i \in Subs : sub[i].found = "processing" => sub[i].attempts = 0
    /\ \A i, j \in Subs :
          (i # j /\ Calling(i) /\ Calling(j)) => sub[i].doc._id # sub[j].doc._id

\* C2: when the outbound call returned a 2xx body that satisfies the response
\* schema, submit ends with the record completed, the validated body stored,
\* error null, and the caller answered 200.
C2_ValidResponseCompletes ==
    \A i \in Subs :
        (sub[i].pc = "done" /\ Started(i) /\ Alone(i) /\ LastValid(i)) =>
            /\ sub[i].res.status = 200
            /\ store[RecOf(i)].status = "completed"
            /\ store[RecOf(i)].validatedResponse
                  = ValidatorResponseSchema(sub[i].last.data).data
            /\ store[RecOf(i)].error = Null

\* C3: in a submit that found the record `pending`, `processing` is persisted
\* before the first outbound call: while the call is outstanding a read of the
\* record observes `processing`.
C3_ProcessingBeforeCall ==
    \A i \in Subs :
        (sub[i].found = "pending" /\ Calling(i) /\ Alone(i)) =>
            GetResults(RecOf(i)).status = "processing"

C3_Witness ==
    \E i \in Subs : sub[i].found = "pending" /\ sub[i].pc = "in_flight"
                    /\ sub[i].attempts = 1 /\ Alone(i)

\* C4: a submit whose attempts are answered HTTP 500 fails the record only
\* after MAX_RETRIES retries (the call settles with a 500 at attempt
\* MAX_RETRIES + 1 and never earlier), and the error recorded is a non-empty
\* string.
Is500(o) == o # Null /\ o.response /\ o.status = 500
C4_SettleStep ==
    \A i \in Subs :
        (sub[i].pc = "in_flight" /\ sub'[i].pc = "save_final"
            /\ Is500(sub'[i].last)) =>
            /\ sub[i].attempts = MAX_RETRIES + 1
            /\ sub'[i].doc.status = "failed"
            /\ IsStr(sub'[i].doc.error) /\ sub'[i].doc.error.str # ""
C4_Recorded ==
    \A i \in Subs :
        (sub[i].pc = "done" /\ Is500(sub[i].last) /\ Alone(i)) =>
            /\ store[RecOf(i)].status = "failed"
            /\ IsStr(store[RecOf(i)].error) /\ store[RecOf(i)].error.str # ""
C4_FailsAfterRetries == [][C4_SettleStep]_vars /\ []C4_Recorded

C4_Witness ==
    \E i \in Subs : sub[i].pc = "done" /\ Is500(sub[i].last)
                    /\ Alone(i) /\ store[RecOf(i)].status = "failed"

\* C5: a further attempt follows only a transport failure or a 5xx response; a
\* 4xx response ends the submit with the record failed; one submit never makes
\* more than MAX_RETRIES + 1 attempts.
Retryable(o) == o # Null /\ (~o.response \/ (o.status >= 500 /\ o.status <= 599))
Is4xx(o) == o # Null /\ o.response /\ o.status >= 400 /\ o.status <= 499
C5_RetryPolicy ==
    \A i \in Subs :
        /\ sub[i].attempts <= MAX_RETRIES + 1
        /\ sub[i].pc = "backoff" => Retryable(sub[i].last)
        /\ (sub[i].pc = "in_flight" /\ sub[i].attempts > 1) => Retryable(sub[i].last)
        /\ Is4xx(sub[i].last) =>
              /\ Settled(i) /\ sub[i].doc.status = "failed"
              /\ (sub[i].pc = "done" /\ Alone(i)) => store[RecOf(i)].status = "failed"

C5_Witness ==
    /\ \E i \in Subs : sub[i].attempts = MAX_RETRIES + 1 /\ sub[i].pc = "in_flight"
    /\ \E i \in Subs : Is4xx(sub[i].last) /\ sub[i].pc = "done"

\* C6: every change of a record's status is pending -> processing,
\* processing -> completed, processing -> failed or failed -> processing.
AllowedTransitions ==
    { <<"pending", "processing">>, <<"processing", "completed">>,
      <<"processing", "failed">>, <<"failed", "processing">> }
C6_Transitions ==
    [][\A n \in 1..Len(store) :
          store'[n].status # store[n].status =>
              <<store[n].status, store'[n].status>> \in AllowedTransitions]_vars

C6_Witness ==
    \E i \in Subs : sub[i].found = "failed" /\ sub[i].pc = "done"
                    /\ store[RecOf(i)].status = "failed"

\* C7: a submit that has persisted `processing` eventually answers its caller
\* having persisted a terminal status, and no record stays `processing` once
\* every submit that wrote to it has persisted its outcome.
Writing(i) == sub[i].pc \in {"save_processing", "prepare", "in_flight", "backoff", "save_final"}
C7_NotLeftProcessing ==
    \A i \in Subs :
        (sub[i].pc \in {"respond", "done"} /\ Started(i)) =>
            /\ sub[i].doc.status \in {"completed", "failed"}
            /\ sub[i].modified = {}
            /\ (\A j \in Subs : Started(j) /\ sub[j].doc._id = sub[i].doc._id => ~Writing(j))
                  => store[RecOf(i)].status \in {"completed", "failed"}
C7_ReachesTerminal ==
    /\ \A i \in Subs : (sub[i].pc = "prepare") ~> (sub[i].pc = "done")
    /\ []C7_NotLeftProcessing

C7_Witness ==
    \E i \in Subs : /\ sub[i].pc = "done" /\ sub[i].found = "pending" /\ Alone(i)
                    /\ sub[i].last # Null /\ ~sub[i].last.response
                    /\ store[RecOf(i)].status = "failed"

\* C8: a 2xx response whose body fails the response schema fails the record
\* with its own error reason, stores no validatedResponse, and is answered 422
\* with the validation details.
UpstreamFailureReasons == {Str(ErrMessage(o)) : o \in {x \in Outcomes : IsError(x)}}
C8_InvalidBodyFails ==
    \A i \in Subs :
        (Last2xx(i) /\ ~LastValid(i)) =>
            /\ Settled(i)
            /\ sub[i].doc.status = "failed"
            /\ sub[i].doc.error = Str(ErrFormat)
            /\ sub[i].doc.error \notin UpstreamFailureReasons
            /\ sub[i].doc.validatedResponse = Null
            /\ sub[i].res.status = 422 /\ "details" \in DOMAIN sub[i].res
            /\ (sub[i].pc = "done" /\ Alone(i)) =>
                  /\ store[RecOf(i)].status = "failed"
                  /\ store[RecOf(i)].error = Str(ErrFormat)
                  /\ store[RecOf(i)].validatedResponse = Null

C8_Witness ==
    \E i \in Subs : sub[i].pc = "done" /\ Last2xx(i) /\ ~LastValid(i) /\ Alone(i)

\* C9: the body of every outbound request is the record's preparedPayload; it
\* is never the raw inputData nor an envelope holding it.
Carries(v, x) == v = x \/ (IsObj(v) /\ \E k \in Keys(v) : Get(v, k) = x)
KeyOf(w) == w.request.headers["Idempotency-Key"]
C10_IdempotencyKey ==
    /\ \A w \in wire : KeyOf(w) = toString(w.doc)
    /\ \A i \in Subs : sub[i].request # Null =>
          sub[i].request.headers["Idempotency-Key"] = toString(sub[i].doc._id)
    /\ \A w1, w2 \in wire : (w1.doc = w2.doc) <=> (KeyOf(w1) = KeyOf(w2))

C10_Witness ==
    /\ \E w1, w2 \in wire : w1.doc # w2.doc
    /\ \E i \in Subs : sub[i].attempts >= 2

(***************************************************************************)
(* Properties of the payload builder, over the /api/transform requests     *)
(* handled so far (BuildSpec).                                             *)
(***************************************************************************)
Calls == {calls[i] : i \in 1..Len(calls)}
\* The calls that passed request validation, i.e. reached buildBackendPayload.
BuildCalls == {c \in Calls : c.input # Absent}
Built(c) == c.res.status = 200
InDC(c) == Get(c.input, "Driving_Cycle")
OutDC(c) == Get(c.res.payload, "Driving_Cycle")
CycleOf(c) == Get(InDC(c), "Cycle_Type").num
Supplies(c, k) == Has(InDC(c), k)
SuppliesArr(c, k) == Supplies(c, k) /\ IsArr(Get(InDC(c), k))

\* C11: whenever build succeeds, no group of its output holds a key that is
\* in the calculated-key set for that group.
C11_NoCalculatedKeys ==
    \A c \in BuildCalls :
        Built(c) =>
            \A g \in Keys(c.res.payload) :
                IsObj(Get(c.res.payload, g)) =>
                    \A k \in Keys(Get(c.res.payload, g)) : <<g, k>> \notin calculatedKeys

\* A build succeeded on an input that supplies a calculated key whose group
\* also has a template default for it.
C11_Witness ==
    \E c \in BuildCalls :
        /\ Built(c)
        /\ Has(c.input, "Charger_data")
        /\ \E k \in Keys(Get(c.input, "Charger_data")) :
              /\ <<"Charger_data", k>> \in calculatedKeys
              /\ Has(Get(SPEC.backend_payload_template, "Charger_data"), k)

\* C12: for a Standard cycle (1..5) the output has Time_s = null,
\* Speed_mps = null and Altitude_m = 0 whatever the caller sent for them, and
\* keeps the Scenario_data group.
C12_StandardCycle ==
    \A c \in BuildCalls :
        (CycleOf(c) \in StandardCycles /\ Built(c)) =>
            /\ Has(OutDC(c), "Time_s") /\ Get(OutDC(c), "Time_s") = Null
            /\ Has(OutDC(c), "Speed_mps") /\ Get(OutDC(c), "Speed_mps") = Null
            /\ Has(OutDC(c), "Altitude_m") /\ Get(OutDC(c), "Altitude_m") = Num(0)
            /\ Has(c.res.payload, "Scenario_data")
            /\ IsObj(Get(c.res.payload, "Scenario_data"))

C12_Witness ==
    \E c \in BuildCalls :
        /\ CycleOf(c) \in StandardCycles /\ Built(c)
        /\ SuppliesArr(c, "Time_s") /\ SuppliesArr(c, "Speed_mps")
        /\ Supplies(c, "Altitude_m") /\ Get(InDC(c), "Altitude_m") = Num(7)

\* C13: for the City cycle (0) the output Driving_Cycle has no Altitude_m key
\* at all, whatever the caller sent, and Time_s and Speed_mps are the values
\* the caller sent.
C13_CityCycle ==
    \A c \in BuildCalls :
        (CycleOf(c) = CityCycle /\ Built(c)) =>
            /\ ~Has(OutDC(c), "Altitude_m")
            /\ \A k \in {"Time_s", "Speed_mps"} :
                  Supplies(c, k) => (Has(OutDC(c), k) /\ Get(OutDC(c), k) = Get(InDC(c), k))

C13_Witness ==
    \E c \in BuildCalls :
        /\ CycleOf(c) = CityCycle /\ Built(c)
        /\ Supplies(c, "Altitude_m") /\ Get(InDC(c), "Altitude_m") = Num(7)
        /\ SuppliesArr(c, "Time_s") /\ SuppliesArr(c, "Speed_mps")

\* C14: for the Custom cycle (6) build fails with the array rule's error when
\* exactly one of Time_s / Speed_mps is an array, and when both are arrays of
\* different lengths; it does not fail on that rule when both are arrays of
\* equal length or neither is an array.
InvalidScenario(c) ==
    c.res.status = 400 /\ c.res.message \in {MsgBothArrays, MsgSameLength}
SameLength(c) ==
    Len(Get(InDC(c), "Time_s").arr) = Len(Get(InDC(c), "Speed_mps").arr)
C14_CustomArrays ==
    \A c \in BuildCalls :
        CycleOf(c) = CustomCycle =>
            LET tArr == SuppliesArr(c, "Time_s")
                sArr == SuppliesArr(c, "Speed_mps")
            IN  /\ (tArr # sArr) => (InvalidScenario(c) /\ c.res.message = MsgBothArrays)
                /\ (tArr /\ sArr /\ ~SameLength(c)) =>
                      (InvalidScenario(c) /\ c.res.message = MsgSameLength)
                /\ ((tArr /\ sArr /\ SameLength(c)) \/ (~tArr /\ ~sArr)) =>
                      ~InvalidScenario(c)

\* Three Custom requests: one array only, lengths MaxLen and MaxLen - 1, and
\* equal lengths.
C14_Witness ==
    /\ \E c \in BuildCalls :
          /\ CycleOf(c) = CustomCycle /\ InvalidScenario(c)
          /\ SuppliesArr(c, "Time_s") /\ ~SuppliesArr(c, "Speed_mps")
    /\ \E c \in BuildCalls :
          /\ CycleOf(c) = CustomCycle /\ InvalidScenario(c)
          /\ SuppliesArr(c, "Time_s") /\ SuppliesArr(c, "Speed_mps")
          /\ Len(Get(InDC(c), "Time_s").arr) = MaxLen
          /\ Len(Get(InDC(c), "Speed_mps").arr) = MaxLen - 1
    /\ \E c \in BuildCalls :
          /\ CycleOf(c) = CustomCycle /\ Built(c)
          /\ SuppliesArr(c, "Time_s") /\ SuppliesArr(c, "Speed_mps")

\* The Custom array rule is broken by the input of c.
ArrayRuleBroken(c) ==
    /\ CycleOf(c) = CustomCycle
    /\ \/ SuppliesArr(c, "Time_s") # SuppliesArr(c, "Speed_mps")
       \/ SuppliesArr(c, "Time_s") /\ SuppliesArr(c, "Speed_mps") /\ ~SameLength(c)
EqualArrays(c) ==
    SuppliesArr(c, "Time_s") /\ SuppliesArr(c, "Speed_mps") /\ SameLength(c)
\* ECO_Options after the merge: the caller's value, else the template default.
MergedEco(c) ==
    IF Supplies(c, "ECO_Options") THEN Get(InDC(c), "ECO_Options")
    ELSE Get(Get(SPEC.backend_payload_template, "Driving_Cycle"), "ECO_Options")
EcoMissing(c) ==
    MergedEco(c) = Num(EcoThresholdOption) /\ Nullish(InDC(c), "ECO_Threshold")
MissingRequiredField(c) == c.res.status = 400 /\ c.res.message = MsgEcoRequired

\* Altitude_m of a Custom output: the caller's value as sent, or the scalar 0
\* when the caller sent none, null or an empty array.
AltitudeAsSent(c) ==
    /\ Has(OutDC(c), "Altitude_m")
    /\ Get(OutDC(c), "Altitude_m") =
          IF \/ Nullish(InDC(c), "Altitude_m")
             \/ Get(InDC(c), "Altitude_m") = Arr(<<>>)
          THEN Num(0)
          ELSE Get(InDC(c), "Altitude_m")

\* C15 as stated: for every Custom input with Time_s and Speed_mps arrays of
\* equal length, build succeeds and Altitude_m is the caller's value unchanged,
\* or the scalar 0 when the caller's is absent, null or an empty array.
C15_CustomSucceeds ==
    \A c \in BuildCalls :
        (CycleOf(c) = CustomCycle /\ EqualArrays(c)) => (Built(c) /\ AltitudeAsSent(c))

\* C15 amended: for every Custom input with Time_s and Speed_mps arrays of
\* equal length, build succeeds unless the ECO rule fails it (merged
\* ECO_Options = 2 with the caller's ECO_Threshold absent or null, which
\* fails with MissingRequiredField); whenever it succeeds, Altitude_m is the
\* caller's value unchanged, or the scalar 0 when the caller's is absent, null
\* or an empty array.
C15_CustomAltitude ==
    \A c \in BuildCalls :
        (CycleOf(c) = CustomCycle /\ EqualArrays(c)) =>
            /\ Built(c) <=> ~EcoMissing(c)
            /\ ~Built(c) => MissingRequiredField(c)
            /\ Built(c) => AltitudeAsSent(c)

\* Custom requests with equal arrays: one sending a scalar altitude, one an
\* empty array, and one failed by the ECO rule.
C15_Witness ==
    /\ \E c \in BuildCalls :
          /\ CycleOf(c) = CustomCycle /\ EqualArrays(c) /\ Built(c)
          /\ Supplies(c, "Altitude_m") /\ Get(InDC(c), "Altitude_m") = Num(7)
    /\ \E c \in BuildCalls :
          /\ CycleOf(c) = CustomCycle /\ EqualArrays(c) /\ Built(c)
          /\ Supplies(c, "Altitude_m") /\ Get(InDC(c), "Altitude_m") = Arr(<<>>)
    /\ \E c \in BuildCalls :
          CycleOf(c) = CustomCycle /\ EqualArrays(c) /\ MissingRequiredField(c)

\* C16 as stated: for every input, merged ECO_Options = 2 with the caller's
\* ECO_Threshold absent or null makes build fail with MissingRequiredField;
\* with any other ECO_Options the output ECO_Threshold is null.
C16_EcoAlwaysMissingField ==
    \A c \in BuildCalls :
        /\ EcoMissing(c) => MissingRequiredField(c)
        /\ (MergedEco(c) # Num(EcoThresholdOption) /\ Built(c)) =>
              (Has(OutDC(c), "ECO_Threshold") /\ Get(OutDC(c), "ECO_Threshold") = Null)

\* C16 amended: merged ECO_Options = 2 with the caller's ECO_Threshold absent
\* or null makes build fail: with MissingRequiredField, unless the input is a
\* Custom cycle that breaks the array rule, which fails first with
\* InvalidScenario.  With any other ECO_Options the output ECO_Threshold is
\* null even when the caller sent a number.
C16_EcoRule ==
    \A c \in BuildCalls :
        /\ EcoMissing(c) =>
              /\ ~Built(c)
              /\ ArrayRuleBroken(c) => InvalidScenario(c)
              /\ ~ArrayRuleBroken(c) => MissingRequiredField(c)
        /\ MissingRequiredField(c) => EcoMissing(c)
        /\ (MergedEco(c) # Num(EcoThresholdOption) /\ Built(c)) =>
              (Has(OutDC(c), "ECO_Threshold") /\ Get(OutDC(c), "ECO_Threshold") = Null)

C16_Witness ==
    /\ \E c \in BuildCalls : EcoMissing(c) /\ MissingRequiredField(c)
    /\ \E c \in BuildCalls : EcoMissing(c) /\ InvalidScenario(c)
    /\ \E c \in BuildCalls :
          /\ MergedEco(c) = Num(1) /\ Built(c)
          /\ Supplies(c, "ECO_Threshold") /\ Get(InDC(c), "ECO_Threshold") = Num(5)

\* C17: two build calls with the same input return the same result whatever
\* calls ran before or between them, and no call changes the template, the
\* UI-key map or the calculated-key set.
C17_BuildIsPure ==
    /\ \A c, d \in BuildCalls : c.input = d.input => c.res = d.res
    /\ SPEC = loadSpec(specFile).spec
    /\ uiMap = buildFieldMaps(specFile).uiMap
    /\ calculatedKeys = buildFieldMaps(specFile).calculatedKeys

\* The same input built first and third, with a failing build of another
\* input between them.
C17_Witness ==
    /\ Len(calls) = 3
    /\ calls[1].input # Absent /\ calls[1].input = calls[3].input /\ Built(calls[1])
    /\ calls[2].input # Absent /\ calls[2].input # calls[1].input
    /\ calls[2].res.status = 400

(***************************************************************************)
(* Properties of start-up (StartSpec).                                     *)
(***************************************************************************)
\* The field descriptors of the document, as <<group, descriptor>>.
DescriptorsOf(file) ==
    IF file.ui_schema = Absent THEN {}
    ELSE UNION { { <<g, file.ui_schema[g][i]>> : i \in 1..Len(file.ui_schema[g]) } :
                 g \in DOMAIN file.ui_schema }
HasEntry(g, f) ==
    /\ g \in DOMAIN uiMap
    /\ \E j \in 1..Len(uiMap[g]) : uiMap[g][j] = <<f.key, f.backend_key>>

\* C18: start-up fails exactly when the document's template is absent or not
\* an object; otherwise it succeeds and the UI-key map has a UI key -> backend
\* key entry for every field descriptor of every ui_schema group.
C18_ParseContract ==
    boot \in {"up", "crashed"} =>
        /\ boot = "crashed" <=> ~IsObj(specFile.backend_payload_template)
        /\ boot = "up" => \A d \in DescriptorsOf(specFile) : HasEntry(d[1], d[2])

(***************************************************************************)
(* Properties of save-input (Spec).                                        *)
(***************************************************************************)
Accepted(body) ==
    /\ RequestSchema(body).success
    /\ buildBackendPayload(Get(RequestSchema(body).data, "inputData")).ok
NewRecord == store'[Len(store')]

\* C19: a save-input request that passes the request schema and whose build
\* succeeds creates exactly one record, `pending`, whose preparedPayload is
\* build(inputData); a request that either of them rejects creates none and
\* leaves the stored records as they were.
C19_SaveInputStep ==
    \A body \in SaveBodies :
        SaveInput(body) =>
            IF Accepted(body)
            THEN /\ Len(store') = Len(store) + 1
                 /\ SubSeq(store', 1, Len(store)) = store
                 /\ NewRecord.status = "pending"
                 /\ NewRecord.preparedPayload = buildBackendPayload(NewRecord.inputData).payload
                 /\ saveRes'.status = 201
            ELSE /\ store' = store
                 /\ saveRes'.status \in {400, 422}
C19_SaveInput == [][C19_SaveInputStep]_vars

\* One request was accepted and a later one was rejected by the builder.
C19_Witness ==
    /\ Len(store) = 1 /\ store[1].status = "pending"
    /\ saveRes.status = 400

\* C20: the inputData stored by an accepted save-input is the inputData the
\* caller sent, and no later step changes it.
C20_Step ==
    /\ \A body \in SaveBodies :
          (SaveInput(body) /\ Len(store') = Len(store) + 1) =>
              NewRecord.inputData = Get(body, "inputData")
    /\ \A n \in 1..Len(store) : store'[n].inputData = store[n].inputData
C20_InputDataUntouched == [][C20_Step]_vars

(***************************************************************************)
(* Properties of the record's fields.                                      *)
(***************************************************************************)
\* C21: in every reachable state, every record's error is null unless its
\* status is `failed`, under any sequence of save-input and submit
\* operations, resubmission of a failed record included.
C21_ErrorOnlyWhenFailed ==
    \A n \in 1..Len(store) : store[n].error # Null => store[n].status = "failed"

\* C22: validatedResponse is null as long as the record has never reached
\* `completed` (it can only become non-null in a step that completes the
\* record), and it is non-null whenever the status is `completed`.
C22_Step ==
    \A n \in 1..Len(store') :
        /\ store'[n].status = "completed" => store'[n].validatedResponse # Null
        /\ store'[n].validatedResponse # Null =>
              \/ store'[n].status = "completed"
              \/ n <= Len(store) /\ store[n].validatedResponse # Null
C22_ValidatedResponse == [][C22_Step]_vars

C22_Witness ==
    \E i \in Subs : /\ sub[i].pc = "done" /\ LastValid(i) /\ Alone(i)
                    /\ store[RecOf(i)].status = "failed"
                    /\ store[RecOf(i)].validatedResponse = Null

\* C24: whenever submit reports an upstream failure to its caller (transport
\* failure, non-2xx after retries, invalid 2xx body), its save of status
\* `failed` with the error has reached the collection before the response is
\* sent, and what a results read observes stays `failed` until another
\* submit of the record persists `processing`.
UpstreamFailure(i) ==
    /\ sub[i].res # Null
    /\ "error" \in DOMAIN sub[i].res
    /\ sub[i].res.error \in {"Validator error", "Invalid validator response",
                             "Validator response validation error"}
C24_Step ==
    \A i \in Subs :
        /\ (sub[i].pc # "done" /\ sub'[i].pc = "done" /\ UpstreamFailure(i)') =>
              /\ sub[i].pc = "respond"
              /\ sub[i].modified = {}
              /\ sub[i].doc.status = "failed" /\ sub[i].doc.error # Null
        /\ (sub[i].pc # "respond" /\ sub'[i].pc = "respond" /\ UpstreamFailure(i)') =>
              /\ sub[i].pc = "save_final"
              /\ GetResults(RecOf(i))'.status = "failed"
              /\ GetResults(RecOf(i))'.error = sub[i].doc.error
              /\ sub[i].doc.error # Null
        /\ (sub[i].pc \in {"respond", "done"} /\ UpstreamFailure(i)
              /\ GetResults(RecOf(i)).status = "failed"
              /\ GetResults(RecOf(i))'.status # "failed") =>
              \E j \in Subs \ {i} :
                  /\ sub[j].id = sub[i].id
                  /\ sub[j].pc = "save_processing" /\ sub'[j].pc = "prepare"
C24_FailedBeforeReply == [][C24_Step]_vars

C24_Witness ==
    \E i \in Subs : /\ sub[i].pc = "done" /\ UpstreamFailure(i)
                    /\ sub[i].last # Null /\ IsError(sub[i].last)
                    /\ GetResults(RecOf(i)).status = "failed"
                    /\ GetResults(RecOf(i)).error = Str(ErrMessage(sub[i].last))

\* C29: without a shared secret the submit still issues its outbound call,
\* with no X-Signature header, and does not fail for that reason; with a
\* secret, every outbound call, each retry included, carries an X-Signature
\* computed with that secret over the payload sent as the body.
Signed(req) ==
    IF config.SHARED_SECRET = ""
    THEN "X-Signature" \notin DOMAIN req.headers
    ELSE /\ "X-Signature" \in DOMAIN req.headers
         /\ req.headers["X-Signature"] = [hmac |-> <<config.SHARED_SECRET, req.data>>]
C29_Step ==
    \A i \in Subs :
        /\ (sub[i].pc = "prepare" /\ sub'[i] # sub[i]) =>
              /\ sub'[i].pc = "in_flight" /\ sub'[i].attempts = 1
              /\ sub'[i].request.data = payloadToSend(sub[i].doc)
        /\ (sub[i].pc \in {"prepare", "backoff"} /\ sub'[i].pc = "in_flight") =>
              /\ Signed(sub'[i].request)
              /\ [doc |-> sub[i].doc._id, request |-> sub'[i].request] \in wire'
        /\ \A w \in wire' : Signed(w.request)
C29_Signature == [][C29_Step]_vars

C29_Witness ==
    \E i \in Subs : /\ config.SHARED_SECRET # ""
                    /\ sub[i].pc = "in_flight" /\ sub[i].attempts = MAX_RETRIES + 1
                    /\ Signed(sub[i].request)

(***************************************************************************)
(* Properties of the mapper and of the merged groups (BuildSpec).          *)
(***************************************************************************)
Mapped(c) == mapInputToBackend(c.input)
MappedGroup(c, g) == IF Has(Mapped(c), g) THEN Get(Mapped(c), g) ELSE EmptyObj
Template == SPEC.backend_payload_template
StandardOut(c) == Get(OutDC(c), "Cycle_Type") \in {Num(n) : n \in StandardCycles}
CityOut(c) == Get(OutDC(c), "Cycle_Type") = Num(CityCycle)
\* The deletions the rules engine makes for the call's cycle type.
Deleted(c, g, k) ==
    \/ g = "Driving_Cycle" /\ k = "Altitude_m" /\ CityOut(c)
    \/ g = "Scenario_data" /\ ~StandardOut(c)
\* Keys that no rule of the engine writes after the merge.
PlainKeys ==
    { <<"Driving_Cycle", "Cycle_Type">>, <<"Driving_Cycle", "ECO_Options">>,
      <<"Charger_data", "Charger_Power_kW">>, <<"Energy_Storage_data", "MaximumSoC_pct">> }

\* C26: for every successful build, every non-calculated key the template
\* defines for a group is present in the output for that group, except
\* Driving_Cycle.Altitude_m under City and the whole Scenario_data group
\* under non-Standard cycle types; a key no rule writes carries the caller's
\* mapped value, or the template default when the caller sent none.
C26_TemplateKeysPresent ==
    \A c \in BuildCalls :
        Built(c) =>
            \A g \in Keys(Template) : \A k \in Keys(Get(Template, g)) :
                (<<g, k>> \notin calculatedKeys /\ ~Deleted(c, g, k)) =>
                    /\ Has(c.res.payload, g)
                    /\ Has(Get(c.res.payload, g), k)
                    /\ <<g, k>> \in PlainKeys =>
                          Get(Get(c.res.payload, g), k) =
                              IF Has(MappedGroup(c, g), k) THEN Get(MappedGroup(c, g), k)
                              ELSE Get(Get(Template, g), k)

\* A Standard build whose Charger_Power_kW came through a rename and whose
\* ECO_Threshold, Initial_Battery_SoC_pct and Number_of_Buses_in_Fleet were
\* not sent.
C26_Witness ==
    \E c \in BuildCalls :
        /\ Built(c) /\ StandardOut(c)
        /\ Has(c.input, "Charger_data") /\ Has(Get(c.input, "Charger_data"), "chargerPower")
        /\ Get(Get(c.res.payload, "Charger_data"), "Charger_Power_kW") = Num(50)
        /\ ~Supplies(c, "ECO_Threshold") /\ Has(OutDC(c), "ECO_Threshold")
        /\ Has(Get(c.res.payload, "Scenario_data"), "Number_of_Buses_in_Fleet")

\* C27: after a build, Scenario_data is in the output exactly when Cycle_Type
\* is a Standard code (1..5); when it is, each of its four fields equals the
\* caller's value if supplied, else its last-resort default (the template's
\* VehicleLength, 0 for the other three).
LastResort(k) ==
    IF k = "VehicleLength" THEN Get(Get(Template, "Scenario_data"), "VehicleLength")
    ELSE Num(0)
Renames(g) == IF g \in DOMAIN uiMap THEN {uiMap[g][n] : n \in 1..Len(uiMap[g])} ELSE {}
\* What the mapper owes a group: every key sent is there, with its value
\* unless a rename whose UI key was sent targets it; every such rename's
\* backend key holds the UI key's value; with no renames the group is as sent.
GroupMapped(g, sent, out) ==
    /\ \A k \in Keys(sent) :
          /\ Has(out, k)
          /\ (\A r \in Renames(g) : r[2] = k => ~Has(sent, r[1])) => Get(out, k) = Get(sent, k)
    /\ \A r \in Renames(g) :
          Has(sent, r[1]) => Has(out, r[2]) /\ Get(out, r[2]) = Get(sent, r[1])
    /\ Renames(g) = {} => out = sent

IsIso(v) == v = Str(IsoTimestamp)
ClaimedShape(b) ==
    /\ IsObj(b)
    /\ Has(b, "version") /\ IsStr(Get(b, "version"))
    /\ Has(b, "computed_at") /\ IsIso(Get(b, "computed_at"))
    /\ Has(b, "timeseries") /\ IsObj(Get(b, "timeseries"))
    /\ Has(Get(b, "timeseries"), "time_s") /\ IsNumArr(Get(Get(b, "timeseries"), "time_s"))
    /\ \A k \in TimeseriesOptional :
          Has(Get(b, "timeseries"), k) => IsNumArr(Get(Get(b, "timeseries"), k))
    /\ Has(b, "metrics") /\ IsObj(Get(b, "metrics"))
    /\ \A k \in MetricsKeys : Has(Get(b, "metrics"), k) => IsNum(Get(Get(b, "metrics"), k))

\* C23: the response schema accepts a body if and only if it has a string
\* version, a computed_at that is an ISO timestamp, a timeseries object whose
\* time_s is an array of numbers and whose other series, when present, are
\* arrays of numbers, and a metrics object whose fields, when present, are
\* numbers.
C23_AcceptsIff ==
    \A n \in 1..Len(calls) : calls[n].res.success <=> ClaimedShape(calls[n].body)

(***************************************************************************)
(* Properties of the example validator (ValidatorSpec).                    *)
(***************************************************************************)
Answered(i) == validations[i].pc = "done" /\ validations[i].res.status = 200
\* C25: any two /validate requests carrying the same Idempotency-Key, two
\* whose handling overlaps included, cause the computation to be performed
\* at most once and receive the identical response body.
C25_ComputedOnce ==
    \A i, j \in Validations :
        (i # j /\ validations[i].key # Absent /\ validations[i].key = validations[j].key) =>
            /\ ~(validations[i].computed /\ validations[j].computed)
            /\ (Answered(i) /\ Answered(j)) => validations[i].res.body = validations[j].res.body

(***************************************************************************)
(* Properties of the simulation-interface page (PageSpec).                 *)
(***************************************************************************)
\* C30: pollResults issues at most maxAttempts polls of /api/results/:id
\* before it navigates to the output page, and it navigates exactly once.
C30_PollingStops ==
    /\ page.attempts <= maxAttempts
    /\ page.navigations <= 1
    /\ page.pc = "unloaded" => page.navigations = 1

====
